---- MODULE Spec2Model ----
(***************************************************************************)
(* Model of the password generation and strength analysis core of the     *)
(* secure-password-manager repository (lib/crypto) and of the             *)
(* authentication and tab navigation of its page component.  Characters   *)
(* are modelled by their UTF-16 code units, strings by sequences of code  *)
(* units.                                                                 *)
(***************************************************************************)
EXTENDS Integers, Sequences, FiniteSets, TLC

VARIABLES config, pc, s, result, safety, i, output,
          passwordType, analyzeText, analysis,
          entropyArg, crackingTime,
          isMounted, activeTab, isAuthenticated, user, showAuthModal, authMode,
          authEmail, authPassword, authName, storedUser, storedPass,
          sessionEnded,
          history, storedHistory, autoGenerate, generated,
          rnd, shuffle

\* the state of a call of generateSecurePassword
genVars == <<config, pc, s, result, safety, i, output>>
\* the argument handed to analyzePasswordStrength (the type of the value and,
\* for a string, its text) and the outcome of the call
anaVars == <<passwordType, analyzeText, analysis>>
\* the argument handed to estimateCrackingTime and the value it returned
estVars == <<entropyArg, crackingTime>>
\* the state of the page component that the authentication touches, and the
\* localStorage items 'user' and 'userPassword'
\* sessionEnded is a history variable: handleLogout has run and no handleAuth
\* has succeeded since
uiVars == <<isMounted, activeTab, isAuthenticated, user, showAuthModal, authMode,
            authEmail, authPassword, authName, storedUser, storedPass,
            sessionEnded>>
\* the generation history of the page, the localStorage item
\* 'passwordHistory', the auto-generate switch, and the number of passwords
\* generatePassword has produced so far; the k-th of them is named k
histVars == <<history, storedHistory, autoGenerate, generated>>
\* a call of secureRandomInt on its own: its argument, the content of buf,
\* the number of getRandomValues calls made and the value returned
rndVars == <<rnd>>
\* a call of secureShuffle on its own: the array as it was passed and the
\* indices j drawn so far (the array itself is result, the index is i)
shVars == <<shuffle>>
vars == <<genVars, anaVars, estVars, uiVars, histVars, rndVars, shVars>>

----------------------------------------------------------------------------
(* Bounds of the model *)

\* largest small length a configuration asks for
MaxLen == 3
\* the random source of Spec delivers the 32-bit values 12..12 + MaxDraw
MaxDraw == 2
\* number of rejected candidates the random source produces in one call (Spec)
MaxRejects == 1
\* number of pieces typed or pasted into the analysed text
MaxChunks == 3
\* largest whole number of bits handed to estimateCrackingTime
MaxBits == 130
\* number of different e-mail addresses and of different passwords typed into
\* the authentication form
MaxCredentials == 2
\* number of passwords generatePassword produces in one behaviour
MaxGenerations == 52
\* largest small argument of secureRandomInt in SpecRandomInt
MaxArg == 10
\* the low half of a drawn value is within MaxLow of 0 or of 65535
MaxLow == 90
\* number of values one call of secureRandomInt draws in SpecRandomInt
MaxRndDraws == 2
\* largest length of an array handed to secureShuffle in SpecShuffle
MaxShuffleLen == 4
\* largest length a configuration of SpecCap asks for
MaxCapLen == 3
\* the random source of SpecValid delivers the 32-bit values 0..MaxValidDraw
MaxValidDraw == 1

----------------------------------------------------------------------------
(* Program constants *)

\* NIST_GUIDELINES.minimumLength / maximumLength
minimumLength == 8
maximumLength == 64
\* the rejection cap of the fill loop: if (++safety > 5000) break
SAFETY_LIMIT == 5000

Range(lo, hi) == [k \in 1..(hi - lo + 1) |-> lo + k - 1]

\* CHARACTER_SETS, as code units
CHARACTER_SETS ==
  [uppercase |-> Range(65, 90),
   lowercase |-> Range(97, 122),
   numbers   |-> Range(48, 57),
   symbols   |-> <<33, 64, 35, 36, 37, 94, 38, 42, 40, 41, 95, 43, 45, 61,
                   91, 93, 123, 125, 124, 59, 58, 44, 46, 60, 62, 63>>]

\* AMBIGUOUS_CHARS: I l 1 O 0 o
AMBIGUOUS_CHARS == {73, 108, 49, 79, 48, 111}

\* the value of an out-of-range string index (JavaScript undefined)
UNDEFINED == -1

----------------------------------------------------------------------------
(* Pure helpers *)

Max(a, b) == IF a >= b THEN a ELSE b
Min(a, b) == IF a <= b THEN a ELSE b

\* str[idx] with a 0-based index
CharAt(str, idx) == IF idx >= 0 /\ idx < Len(str) THEN str[idx + 1] ELSE UNDEFINED

Chars(str) == {str[k] : k \in 1..Len(str)}

RECURSIVE filterAmbiguous(_)
filterAmbiguous(input) ==
  IF input = <<>> THEN <<>>
  ELSE IF Head(input) \in AMBIGUOUS_CHARS
       THEN filterAmbiguous(Tail(input))
       ELSE <<Head(input)>> \o filterAmbiguous(Tail(input))

\* filterAmbiguous applied to the three classes it is used on
FILTERED_SETS ==
  [uppercase |-> filterAmbiguous(CHARACTER_SETS.uppercase),
   lowercase |-> filterAmbiguous(CHARACTER_SETS.lowercase),
   numbers   |-> filterAmbiguous(CHARACTER_SETS.numbers)]

\* useAmbiguityFilter ? filterAmbiguous(CHARACTER_SETS[key]) : CHARACTER_SETS[key]
FilteredIf(cfg, key) ==
  IF cfg.avoidAmbiguous THEN FILTERED_SETS[key] ELSE CHARACTER_SETS[key]

\* buildEnabledSets without the tests of the class flags
buildEnabledSetsNoFlags(cfg) ==
  LET all == <<[key |-> "uppercase", chars |-> FilteredIf(cfg, "uppercase")],
               [key |-> "lowercase", chars |-> FilteredIf(cfg, "lowercase")],
               [key |-> "numbers",   chars |-> FilteredIf(cfg, "numbers")],
               [key |-> "symbols",   chars |-> CHARACTER_SETS.symbols]>>
  IN  SelectSeq(all, LAMBDA e : Len(e.chars) > 0)

buildEnabledSets(cfg) ==
  LET up  == IF cfg.uppercase
             THEN <<[key |-> "uppercase", chars |-> FilteredIf(cfg, "uppercase")]>>
             ELSE <<>>
      low == IF cfg.lowercase
             THEN <<[key |-> "lowercase", chars |-> FilteredIf(cfg, "lowercase")]>>
             ELSE <<>>
      num == IF cfg.numbers
             THEN <<[key |-> "numbers", chars |-> FilteredIf(cfg, "numbers")]>>
             ELSE <<>>
      sym == IF cfg.symbols
             THEN <<[key |-> "symbols", chars |-> CHARACTER_SETS.symbols]>>
             ELSE <<>>
  IN  SelectSeq(up \o low \o num \o sym, LAMBDA e : Len(e.chars) > 0)

RECURSIVE Join(_)
Join(strs) == IF strs = <<>> THEN <<>> ELSE Head(strs) \o Join(Tail(strs))

\* sets.map(s => s.chars).join('')
JoinedSets(cfg) ==
  LET sets == buildEnabledSets(cfg)
  IN  Join([k \in 1..Len(sets) |-> sets[k].chars])

\* combined without the fallback
combinedNoFallback(cfg) == JoinedSets(cfg)

\* the combined alphabet, with the lowercase fallback when nothing is selected
combined(cfg) ==
  IF Len(JoinedSets(cfg)) = 0 THEN CHARACTER_SETS.lowercase ELSE JoinedSets(cfg)

requireAll(cfg) == cfg.requireAllTypes /\ Len(buildEnabledSets(cfg)) > 0
noRepeat(cfg) == cfg.noConsecutiveRepeat
noSeq(cfg) == cfg.noSequential
targetLength(cfg) == Max(0, cfg.length)

isSequential(a, b, c) ==
  LET asc  == b = a + 1 /\ c = b + 1
      desc == b = a - 1 /\ c = b - 1
  IN  asc \/ desc

----------------------------------------------------------------------------
(* secureRandomInt.  A 32-bit unsigned value v drawn from the platform    *)
(* random source is represented by its 16-bit halves [hi, lo],            *)
(* v = hi * 65536 + lo, so that the arithmetic stays within TLC's         *)
(* integers for the moduli the generator uses (at most 88).               *)

Uint32(h, l) == [hi |-> h, lo |-> l]

\* 2^32 mod n
Pow32Mod(n) == ((65536 % n) * (65536 % n)) % n

\* the test val < limit left out: every drawn value is reduced modulo n
BelowLimitAlways(val, n) == TRUE

\* val < limit, where limit = floor(2^32 / n) * n = 2^32 - (2^32 mod n)
BelowLimit(val, n) ==
  ~ (val.hi = 65535 /\ (65535 - val.lo) < Pow32Mod(n))

\* val % n
ValMod(val, n) == ((((val.hi % n) * (65536 % n)) % n) + (val.lo % n)) % n

\* the values secureRandomInt(maxExclusive) can return when the source
\* delivers values of vals: values at or above limit are drawn again
secureRandomInt(maxExclusive, vals) ==
  IF maxExclusive <= 0 THEN {0}
  ELSE {ValMod(v, maxExclusive) : v \in {w \in vals : BelowLimit(w, maxExclusive)}}

\* secureRandomInt has not returned
NotReturned == -1

\* no call of secureRandomInt on its own, nor of secureShuffle
RandomIntIdle ==
  /\ rnd = [maxExclusive |-> 0, buf |-> Uint32(0, 0), draws |-> 0,
            returned |-> NotReturned]
  /\ shuffle = [input |-> <<>>, draws |-> <<>>]

\* values of the random source considered by Spec: 12, 13, 14, ... pick
\* consecutive characters of an alphabet ('m', 'n', 'o' of a-z, '2', '3', '4'
\* of 0-9), among them an ambiguous one
RandomValues == {Uint32(0, 12 + l) : l \in 0..MaxDraw}
\* values of the random source considered by SpecCap: three values, which
\* pick three consecutive digits
CapValues == {Uint32(0, l) : l \in 0..2}
\* values of the random source considered by SpecValid
ValidValues == {Uint32(0, l) : l \in 0..MaxValidDraw}

----------------------------------------------------------------------------
(* Configurations *)

Flags ==
  [uppercase : BOOLEAN, lowercase : BOOLEAN, numbers : BOOLEAN, symbols : BOOLEAN,
   avoidAmbiguous : BOOLEAN, requireAllTypes : BOOLEAN,
   noConsecutiveRepeat : BOOLEAN, noSequential : BOOLEAN]

WithLength(f, l) ==
  [length |-> l,
   uppercase |-> f.uppercase, lowercase |-> f.lowercase,
   numbers |-> f.numbers, symbols |-> f.symbols,
   avoidAmbiguous |-> f.avoidAmbiguous, requireAllTypes |-> f.requireAllTypes,
   noConsecutiveRepeat |-> f.noConsecutiveRepeat, noSequential |-> f.noSequential]

\* every combination of classes and rules, lengths -1..MaxLen
Configs == {WithLength(f, l) : f \in Flags, l \in (-1)..MaxLen}

\* the classes of the PIN preset (numbers only)
PinFlags == {f \in Flags : ~ f.uppercase /\ ~ f.lowercase /\ f.numbers /\ ~ f.symbols}

\* <<requireAllTypes, noConsecutiveRepeat, noSequential>> of SpecCap: no
\* rule, each rule alone, all three
CapRules ==
  {<<FALSE, FALSE, FALSE>>, <<TRUE, FALSE, FALSE>>, <<FALSE, TRUE, FALSE>>,
   <<FALSE, FALSE, TRUE>>, <<TRUE, TRUE, TRUE>>}

\* numbers only, the rules of CapRules, lengths 0..MaxCapLen
CapConfigs ==
  {WithLength(f, l) :
     f \in {g \in PinFlags :
              /\ ~ g.avoidAmbiguous
              /\ <<g.requireAllTypes, g.noConsecutiveRepeat, g.noSequential>>
                   \in CapRules},
     l \in 0..MaxCapLen}

\* numbers only, requireAllTypes and noConsecutiveRepeat set or not, the
\* smallest valid length
ValidConfigs ==
  {WithLength(f, minimumLength) :
     f \in {g \in PinFlags : ~ g.avoidAmbiguous /\ ~ g.noSequential}}

NumEnabled(cfg) ==
  (IF cfg.uppercase THEN 1 ELSE 0) + (IF cfg.lowercase THEN 1 ELSE 0)
    + (IF cfg.numbers THEN 1 ELSE 0) + (IF cfg.symbols THEN 1 ELSE 0)

\* validateConfig: length within the NIST bounds, at least one class
ValidConfig(cfg) ==
  /\ cfg.length >= minimumLength
  /\ cfg.length <= maximumLength
  /\ NumEnabled(cfg) >= 1

----------------------------------------------------------------------------
(* calculateEntropy and analyzePasswordStrength.  Entropy values are kept *)
(* in millionths of a bit.                                                *)

\* Math.log2(n) for n in 1..128, in millionths, rounded to nearest
Log2Micro ==
  <<
    0, 1000000, 1584963, 2000000, 2321928, 2584963, 2807355, 3000000,
    3169925, 3321928, 3459432, 3584963, 3700440, 3807355, 3906891,
    4000000, 4087463, 4169925, 4247928, 4321928, 4392317, 4459432,
    4523562, 4584963, 4643856, 4700440, 4754888, 4807355, 4857981,
    4906891, 4954196, 5000000, 5044394, 5087463, 5129283, 5169925,
    5209453, 5247928, 5285402, 5321928, 5357552, 5392317, 5426265,
    5459432, 5491853, 5523562, 5554589, 5584963, 5614710, 5643856,
    5672425, 5700440, 5727920, 5754888, 5781360, 5807355, 5832890,
    5857981, 5882643, 5906891, 5930737, 5954196, 5977280, 6000000,
    6022368, 6044394, 6066089, 6087463, 6108524, 6129283, 6149747,
    6169925, 6189825, 6209453, 6228819, 6247928, 6266787, 6285402,
    6303781, 6321928, 6339850, 6357552, 6375039, 6392317, 6409391,
    6426265, 6442943, 6459432, 6475733, 6491853, 6507795, 6523562,
    6539159, 6554589, 6569856, 6584963, 6599913, 6614710, 6629357,
    6643856, 6658211, 6672425, 6686501, 6700440, 6714246, 6727920,
    6741467, 6754888, 6768184, 6781360, 6794416, 6807355, 6820179,
    6832890, 6845490, 6857981, 6870365, 6882643, 6894818, 6906891,
    6918863, 6930737, 6942515, 6954196, 6965784, 6977280, 6988685, 7000000
  >>

\* frequencyMap.get(c)
Frequency(password, c) == Cardinality({k \in 1..Len(password) : password[k] = c})

RECURSIVE SumOver(_, _)
SumOver(f, S) ==
  IF S = {} THEN 0
  ELSE LET x == CHOOSE y \in S : TRUE IN f[x] + SumOver(f, S \ {x})

\* calculateEntropy without the final multiplication by password.length
calculateEntropyPerSymbol(password) ==
  IF Len(password) = 0 THEN 0
  ELSE LET length == Len(password)
           term == [c \in Chars(password) |->
                      Frequency(password, c)
                        * (Log2Micro[length] - Log2Micro[Frequency(password, c)])]
       IN  SumOver(term, Chars(password)) \div length

\* -sum(p * log2(p)) * length with p = frequency / length, which is
\* sum(frequency * (log2(length) - log2(frequency)))
calculateEntropy(password) ==
  IF Len(password) = 0 THEN 0
  ELSE LET length == Len(password)
           term == [c \in Chars(password) |->
                      Frequency(password, c)
                        * (Log2Micro[length] - Log2Micro[Frequency(password, c)])]
       IN  SumOver(term, Chars(password))

IsLower(c) == c >= 97 /\ c <= 122
IsUpper(c) == c >= 65 /\ c <= 90
IsDigit(c) == c >= 48 /\ c <= 57

Bit(b) == IF b THEN 1 ELSE 0

Micro(bits) == bits * 1000000

\* scoreOf whose last test is /[^a-zA-Z]/: a digit counts as a symbol too
scoreOfDigitAsSymbol(password) ==
  LET entropy == calculateEntropy(password)
      length == Len(password)
  IN  Bit(length >= 8) + Bit(length >= 12) + Bit(length >= 16) + Bit(length >= 20)
      + Bit(\E c \in Chars(password) : IsLower(c))
      + Bit(\E c \in Chars(password) : IsUpper(c))
      + Bit(\E c \in Chars(password) : IsDigit(c))
      + Bit(\E c \in Chars(password) : ~ IsLower(c) /\ ~ IsUpper(c))
      + Bit(entropy >= Micro(50)) + Bit(entropy >= Micro(80))

\* scoreOf with the third length threshold compared strictly
scoreOfStrictLength(password) ==
  LET entropy == calculateEntropy(password)
      length == Len(password)
  IN  Bit(length >= 8) + Bit(length >= 12) + Bit(length > 16) + Bit(length >= 20)
      + Bit(\E c \in Chars(password) : IsLower(c))
      + Bit(\E c \in Chars(password) : IsUpper(c))
      + Bit(\E c \in Chars(password) : IsDigit(c))
      + Bit(\E c \in Chars(password) : ~ IsLower(c) /\ ~ IsUpper(c) /\ ~ IsDigit(c))
      + Bit(entropy >= Micro(50)) + Bit(entropy >= Micro(80))

\* scoreOf whose four tests are anchored (/^[a-z]+$/ and so on): a class
\* counts only when the whole password is of it
scoreOfWholeString(password) ==
  LET entropy == calculateEntropy(password)
      length == Len(password)
  IN  Bit(length >= 8) + Bit(length >= 12) + Bit(length >= 16) + Bit(length >= 20)
      + Bit(length > 0 /\ \A c \in Chars(password) : IsLower(c))
      + Bit(length > 0 /\ \A c \in Chars(password) : IsUpper(c))
      + Bit(length > 0 /\ \A c \in Chars(password) : IsDigit(c))
      + Bit(length > 0 /\ \A c \in Chars(password) :
                           ~ IsLower(c) /\ ~ IsUpper(c) /\ ~ IsDigit(c))
      + Bit(entropy >= Micro(50)) + Bit(entropy >= Micro(80))

scoreOf(password) ==
  LET entropy == calculateEntropy(password)
      length == Len(password)
  IN  Bit(length >= 8) + Bit(length >= 12) + Bit(length >= 16) + Bit(length >= 20)
      + Bit(\E c \in Chars(password) : IsLower(c))
      + Bit(\E c \in Chars(password) : IsUpper(c))
      + Bit(\E c \in Chars(password) : IsDigit(c))
      + Bit(\E c \in Chars(password) : ~ IsLower(c) /\ ~ IsUpper(c) /\ ~ IsDigit(c))
      + Bit(entropy >= Micro(50)) + Bit(entropy >= Micro(80))

\* labelOf with strict comparisons
labelOfStrict(score) ==
  IF score < 3 THEN "Weak"
  ELSE IF score < 5 THEN "Fair"
  ELSE IF score < 7 THEN "Good"
  ELSE IF score < 9 THEN "Strong"
  ELSE "Excellent"

labelOf(score) ==
  IF score <= 3 THEN "Weak"
  ELSE IF score <= 5 THEN "Fair"
  ELSE IF score <= 7 THEN "Good"
  ELSE IF score <= 9 THEN "Strong"
  ELSE "Excellent"

colorOf(score) ==
  IF score <= 3 THEN "bg-red-500"
  ELSE IF score <= 5 THEN "bg-orange-500"
  ELSE IF score <= 7 THEN "bg-yellow-500"
  ELSE IF score <= 9 THEN "bg-green-500"
  ELSE "bg-emerald-500"

\* analyzePasswordStrength with the guard of the generator panel in front:
\* an empty password gets an empty label and colour
analyzePasswordStrengthGuarded(password) ==
  IF Len(password) = 0 THEN [bits |-> 0, score |-> 0, label |-> "", color |-> ""]
  ELSE [bits  |-> (calculateEntropy(password) + 50000) \div 100000,
        score |-> scoreOf(password),
        label |-> labelOf(scoreOf(password)),
        color |-> colorOf(scoreOf(password))]

\* bits is in tenths of a bit: Math.round(entropy * 10) / 10
analyzePasswordStrength(password) ==
  [bits  |-> (calculateEntropy(password) + 50000) \div 100000,
   score |-> scoreOf(password),
   label |-> labelOf(scoreOf(password)),
   color |-> colorOf(scoreOf(password))]

\* no result yet for the current text
NoAnalysis == [bits |-> 0, score |-> -1, label |-> "", color |-> ""]

\* the pieces of text typed or pasted: the passwords of crypto.test.ts
\* ("pass123", "password", "Xk9$mP2&nQ5@wL8#") and single characters
Chunks ==
  { <<112, 97, 115, 115, 49, 50, 51>>,
    <<112, 97, 115, 115, 119, 111, 114, 100>>,
    <<88, 107, 57, 36, 109, 80, 50, 38, 110, 81, 53, 64, 119, 76, 56, 35>>,
    <<97>>, <<90>>, <<55>>, <<33>> }

----------------------------------------------------------------------------
(* estimateCrackingTime.  2^entropy exceeds the machine integers of the   *)
(* model, so a natural number is the sequence of its decimal digits, most *)
(* significant first and without leading zeros; zero is the empty         *)
(* sequence.                                                              *)

\* x * m + carry for a small m
RECURSIVE TimesSmall(_, _, _)
TimesSmall(x, m, carry) ==
  IF x = <<>>
  THEN IF carry = 0 THEN <<>>
       ELSE Append(TimesSmall(<<>>, m, carry \div 10), carry % 10)
  ELSE LET v == x[Len(x)] * m + carry
       IN  Append(TimesSmall(SubSeq(x, 1, Len(x) - 1), m, v \div 10), v % 10)

\* Math.pow(2, n) for a whole n >= 0, twenty doublings at a time
RECURSIVE Pow2(_)
Pow2(n) ==
  IF n < 20 THEN TimesSmall(<<>>, 1, 2 ^ n)
  ELSE TimesSmall(Pow2(n - 20), 2 ^ 20, 0)

\* long division of x by a small d: the quotient digits and the remainder
RECURSIVE QuotRem(_, _)
QuotRem(x, d) ==
  IF x = <<>> THEN [q |-> <<>>, r |-> 0]
  ELSE LET p == QuotRem(SubSeq(x, 1, Len(x) - 1), d)
           v == p.r * 10 + x[Len(x)]
       IN  [q |-> Append(p.q, v \div d), r |-> v % d]

RECURSIVE StripZeros(_)
StripZeros(x) ==
  IF x # <<>> /\ x[1] = 0 THEN StripZeros(Tail(x)) ELSE x

\* x >= y for numbers in decimal digits
AtLeast(x, y) ==
  \/ Len(x) > Len(y)
  \/ /\ Len(x) = Len(y)
     /\ \/ x = y
        \/ \E k \in 1..Len(x) :
             /\ x[k] > y[k]
             /\ \A j \in 1..(k - 1) : x[j] = y[j]

\* Math.floor(x / d)
FloorDiv(x, d) == StripZeros(QuotRem(x, d).q)

\* Math.floor(x / (ds[1] * ... * ds[n])), one factor after the other
RECURSIVE FloorDivAll(_, _)
FloorDivAll(x, ds) ==
  IF ds = <<>> THEN x ELSE FloorDivAll(FloorDiv(x, Head(ds)), Tail(ds))

\* attemptsPerSecond = 1e10, as the factors 100000 * 100000
attemptsPerSecond == <<100000, 100000>>

\* the divisor of the worst case: attemptsPerSecond alone
worstCase == attemptsPerSecond

\* the divisor 2 * attemptsPerSecond of the average case
averageCase == <<2>> \o attemptsPerSecond

\* the table of the units, largest first; seconds is kept as its factors
intervals ==
  << [label |-> "centuries", seconds |-> <<31536000, 100>>],
     [label |-> "years",     seconds |-> <<31536000>>],
     [label |-> "months",    seconds |-> <<2592000>>],
     [label |-> "days",      seconds |-> <<86400>>],
     [label |-> "hours",     seconds |-> <<3600>>],
     [label |-> "minutes",   seconds |-> <<60>>],
     [label |-> "seconds",   seconds |-> <<1>>] >>

\* return 'instant'
Instant == [count |-> <<>>, label |-> "instant"]

\* the loop over intervals from position k on:
\* count = Math.floor(seconds / interval.seconds); if (count >= 1) return
RECURSIVE IntervalLoop(_, _)
IntervalLoop(bits, k) ==
  IF k > Len(intervals) THEN Instant
  ELSE LET count == FloorDivAll(Pow2(bits), averageCase \o intervals[k].seconds)
       IN  IF count # <<>>
           THEN [count |-> count, label |-> intervals[k].label]
           ELSE IntervalLoop(bits, k + 1)

\* the returned string `${count} ${label}` as the pair of its parts
estimateCrackingTime(bits) == IntervalLoop(bits, 1)

\* no call of estimateCrackingTime has been made
NoEstimate == [count |-> <<>>, label |-> ""]

EstimatorIdle ==
  /\ entropyArg = 0
  /\ crackingTime = NoEstimate

----------------------------------------------------------------------------
(* The page component: tabs, authentication modal, localStorage.  A value *)
(* that may be null (user, a localStorage item) is a sequence of length   *)
(* at most one, null being the empty sequence.                            *)

TabTypes == {"generator", "vault", "bank", "bulk", "analyzer", "settings"}

Null == <<>>
Some(v) == <<v>>

\* the strings typed into the fields of the form: empty, a blank, and
\* MaxCredentials addresses "a@x", "b@x", ... or passwords "A1", "B1", ...
Blank == <<32>>
Emails == {<<>>, Blank} \cup {<<96 + k, 64, 120>> : k \in 1..MaxCredentials}
Passwords == {<<>>, Blank} \cup {<<64 + k, 49>> : k \in 1..MaxCredentials}
Names == {<<>>, <<82>>}

\* String.prototype.trim, for blanks
RECURSIVE TrimStart(_)
TrimStart(str) ==
  IF str # <<>> /\ str[1] = 32 THEN TrimStart(Tail(str)) ELSE str

RECURSIVE TrimEnd(_)
TrimEnd(str) ==
  IF str # <<>> /\ str[Len(str)] = 32
  THEN TrimEnd(SubSeq(str, 1, Len(str) - 1)) ELSE str

trim(str) == TrimEnd(TrimStart(str))

\* the User objects (createdAt is not modelled)
Users == [email : Emails, name : Names]

\* the accounts a sign-up can have stored: the button is disabled on blanks
Accounts ==
  {a \in [user : Users, pass : Passwords] :
     trim(a.user.email) # <<>> /\ trim(a.user.name) # <<>> /\ trim(a.pass) # <<>>}

\* the useState initial values
InitialState ==
  /\ isMounted = FALSE
  /\ activeTab = "generator"
  /\ isAuthenticated = FALSE
  /\ user = Null
  /\ showAuthModal = FALSE
  /\ authMode = "login"
  /\ authEmail = <<>>
  /\ authPassword = <<>>
  /\ authName = <<>>

\* useState([]) and useState(false); nothing generated, nothing stored
HistoryIdle ==
  /\ history = <<>>
  /\ storedHistory = Null
  /\ autoGenerate = FALSE
  /\ generated = 0

\* the page is not open; localStorage is empty
UiIdle ==
  /\ RandomIntIdle
  /\ InitialState
  /\ storedUser = Null
  /\ storedPass = Null
  /\ sessionEnded = FALSE
  /\ HistoryIdle

----------------------------------------------------------------------------
(* generateSecurePassword as a state machine *)

\* the state at the call of generateSecurePassword(cfg)
Call(cfg) ==
  /\ config = cfg
  /\ pc = "seed"
  /\ s = 1
  /\ result = <<>>
  /\ safety = 0
  /\ i = 0
  /\ output = <<>>
  /\ passwordType = "string"
  /\ analyzeText = <<>>
  /\ analysis = NoAnalysis
  /\ EstimatorIdle
  /\ UiIdle

Init == \E cfg \in Configs : Call(cfg)
InitCap == \E cfg \in CapConfigs : Call(cfg)
InitValid == \E cfg \in ValidConfigs : Call(cfg)

\* SeedStep drawing from the combined alphabet instead of the class's own
SeedStepCombined(vals) ==
  /\ pc = "seed"
  /\ requireAll(config)
  /\ s <= Len(buildEnabledSets(config))
  /\ \E idx \in secureRandomInt(Len(combined(config)), vals) :
       result' = Append(result, CharAt(combined(config), idx))
  /\ s' = s + 1
  /\ UNCHANGED <<config, pc, safety, i, output>>
  /\ UNCHANGED <<anaVars, estVars, uiVars, histVars, rndVars, shVars>>

\* SeedStep walking through the enabled sets from the last to the first
SeedStepReversed(vals) ==
  /\ pc = "seed"
  /\ requireAll(config)
  /\ s <= Len(buildEnabledSets(config))
  /\ LET sets == buildEnabledSets(config)
         chars == sets[Len(sets) + 1 - s].chars
     IN  \E idx \in secureRandomInt(Len(chars), vals) :
           result' = Append(result, CharAt(chars, idx))
  /\ s' = s + 1
  /\ UNCHANGED <<config, pc, safety, i, output>>
  /\ UNCHANGED <<anaVars, estVars, uiVars, histVars, rndVars, shVars>>

\* for (const s of sets) result.push(s.chars[secureRandomInt(s.chars.length)])
SeedStep(vals) ==
  /\ pc = "seed"
  /\ requireAll(config)
  /\ s <= Len(buildEnabledSets(config))
  /\ LET chars == buildEnabledSets(config)[s].chars
     IN  \E idx \in secureRandomInt(Len(chars), vals) :
           result' = Append(result, CharAt(chars, idx))
  /\ s' = s + 1
  /\ UNCHANGED <<config, pc, safety, i, output>>
  /\ UNCHANGED <<anaVars, estVars, uiVars, histVars, rndVars, shVars>>

\* SeedDone with the rejection counter living outside the function: it keeps
\* the value the last call left
SeedDoneKeepsCounter ==
  /\ pc = "seed"
  /\ (~ requireAll(config) \/ s > Len(buildEnabledSets(config)))
  /\ pc' = "fill"
  /\ UNCHANGED <<config, s, result, safety, i, output>>
  /\ UNCHANGED <<anaVars, estVars, uiVars, histVars, rndVars, shVars>>

\* end of the seeding: safety = 0 and the fill loop is entered
SeedDone ==
  /\ pc = "seed"
  /\ (~ requireAll(config) \/ s > Len(buildEnabledSets(config)))
  /\ pc' = "fill"
  /\ safety' = 0
  /\ UNCHANGED <<config, s, result, i, output>>
  /\ UNCHANGED <<anaVars, estVars, uiVars, histVars, rndVars, shVars>>

\* FillStep without the break at the rejection cap
FillStepNoCap(vals, maxRej) ==
  /\ pc = "fill"
  /\ Len(result) < targetLength(config)
  /\ \E idx \in secureRandomInt(Len(combined(config)), vals) :
       LET candidate == CharAt(combined(config), idx)
           repeat == /\ noRepeat(config)
                     /\ Len(result) > 0
                     /\ candidate = result[Len(result)]
           seq == /\ noSeq(config)
                  /\ Len(result) > 1
                  /\ isSequential(result[Len(result) - 1], result[Len(result)], candidate)
       IN  IF repeat \/ seq
           THEN /\ safety < maxRej
                /\ safety' = safety + 1
                /\ UNCHANGED <<pc, i, result>>
           ELSE /\ result' = Append(result, candidate)
                /\ UNCHANGED <<pc, i, safety>>
  /\ UNCHANGED <<config, s, output>>
  /\ UNCHANGED <<anaVars, estVars, uiVars, histVars, rndVars, shVars>>

\* one iteration of while (result.length < targetLength)
FillStep(vals, maxRej) ==
  /\ pc = "fill"
  /\ Len(result) < targetLength(config)
  /\ \E idx \in secureRandomInt(Len(combined(config)), vals) :
       LET candidate == CharAt(combined(config), idx)
           repeat == /\ noRepeat(config)
                     /\ Len(result) > 0
                     /\ candidate = result[Len(result)]
           seq == /\ noSeq(config)
                  /\ Len(result) > 1
                  /\ isSequential(result[Len(result) - 1], result[Len(result)], candidate)
       IN  IF repeat \/ seq
           THEN /\ safety < maxRej
                /\ safety' = safety + 1
                /\ IF safety + 1 > SAFETY_LIMIT
                   THEN pc' = "shuffle" /\ i' = Len(result) - 1
                   ELSE UNCHANGED <<pc, i>>
                /\ UNCHANGED result
           ELSE /\ result' = Append(result, candidate)
                /\ UNCHANGED <<pc, i, safety>>
  /\ UNCHANGED <<config, s, output>>
  /\ UNCHANGED <<anaVars, estVars, uiVars, histVars, rndVars, shVars>>

\* the loop condition fails: secureShuffle starts with i = arr.length - 1
FillDone ==
  /\ pc = "fill"
  /\ ~ (Len(result) < targetLength(config))
  /\ pc' = "shuffle"
  /\ i' = Len(result) - 1
  /\ UNCHANGED <<config, s, result, safety, output>>
  /\ UNCHANGED <<anaVars, estVars, uiVars, histVars, rndVars, shVars>>

Swap(arr, a, b) == [arr EXCEPT ![a] = arr[b], ![b] = arr[a]]

\* one iteration of secureShuffle: j = secureRandomInt(i + 1), swap arr[i], arr[j]
ShuffleStep(vals) ==
  /\ pc = "shuffle"
  /\ i > 0
  /\ \E j \in secureRandomInt(i + 1, vals) :
       result' = Swap(result, i + 1, j + 1)
  /\ i' = i - 1
  /\ UNCHANGED <<config, pc, s, safety, output>>
  /\ UNCHANGED <<anaVars, estVars, uiVars, histVars, rndVars, shVars>>

\* shuffled.join('').slice(0, targetLength)
Slice(str, n) == SubSeq(str, 1, Min(n, Len(str)))

\* Return without the slice
ReturnNoSlice ==
  /\ pc = "shuffle"
  /\ ~ (i > 0)
  /\ output' = result
  /\ pc' = "done"
  /\ UNCHANGED <<config, s, result, safety, i>>
  /\ UNCHANGED <<anaVars, estVars, uiVars, histVars, rndVars, shVars>>

Return ==
  /\ pc = "shuffle"
  /\ ~ (i > 0)
  /\ output' = Slice(result, targetLength(config))
  /\ pc' = "done"
  /\ UNCHANGED <<config, s, result, safety, i>>
  /\ UNCHANGED <<anaVars, estVars, uiVars, histVars, rndVars, shVars>>

Next ==
  \/ SeedStep(RandomValues)
  \/ SeedDone
  \/ FillStep(RandomValues, MaxRejects)
  \/ FillDone
  \/ ShuffleStep(RandomValues)
  \/ Return

Spec == Init /\ [][Next]_vars

\* the rejections of the fill loop are bounded by the code's cap alone
Uncapped == SAFETY_LIMIT + 2

NextCap ==
  \/ SeedStep(CapValues)
  \/ SeedDone
  \/ FillStep(CapValues, Uncapped)
  \/ FillDone
  \/ ShuffleStep(CapValues)
  \/ Return

SpecCap == InitCap /\ [][NextCap]_vars

NextValid ==
  \/ SeedStep(ValidValues)
  \/ SeedDone
  \/ FillStep(ValidValues, Uncapped)
  \/ FillDone
  \/ ShuffleStep(ValidValues)
  \/ Return

SpecValid == InitValid /\ [][NextValid]_vars

----------------------------------------------------------------------------
(* The analyser applied to typed text *)

\* the texts made of at most n pieces
RECURSIVE TextsOf(_)
TextsOf(n) ==
  IF n = 0 THEN {<<>>}
  ELSE TextsOf(n - 1) \cup {t \o chunk : t \in TextsOf(n - 1), chunk \in Chunks}

Texts == TextsOf(MaxChunks)

\* no call of the generator is in progress
GeneratorIdle ==
  /\ config = WithLength(CHOOSE f \in Flags : \A k \in DOMAIN f : ~ f[k], 0)
  /\ pc = "idle"
  /\ s = 1
  /\ result = <<>>
  /\ safety = 0
  /\ i = 0
  /\ output = <<>>

\* the text to analyse is any of Texts
InitAnalyze ==
  /\ GeneratorIdle
  /\ EstimatorIdle
  /\ UiIdle
  /\ passwordType = "string"
  /\ analyzeText \in Texts
  /\ analysis = NoAnalysis

\* the values a caller that is not type-checked can pass as password
ArgTypes == {"string", "null", "undefined", "number"}

\* password.length (calculateEntropy, first statement) throws a TypeError on
\* null and on undefined; a number has no length, undefined === 0 is false,
\* and for (const char of password) throws a TypeError: not iterable
Throws(type) == type \in {"null", "undefined", "number"}

\* the call did not return: a TypeError propagated to the caller
TypeError == [bits |-> 0, score |-> -1, label |-> "TypeError", color |-> ""]

\* const analysis = analyzePasswordStrength(analyzeText)
Analyze ==
  /\ analysis = NoAnalysis
  /\ analysis' = IF Throws(passwordType) THEN TypeError
                 ELSE analyzePasswordStrength(analyzeText)
  /\ UNCHANGED <<genVars, passwordType, analyzeText, estVars, uiVars, histVars, rndVars, shVars>>

NextAnalyze == Analyze

SpecAnalyze == InitAnalyze /\ [][NextAnalyze]_vars

\* the argument is a string of Texts or a value of another type
InitAnalyzeAny ==
  /\ GeneratorIdle
  /\ EstimatorIdle
  /\ UiIdle
  /\ passwordType \in ArgTypes
  /\ analyzeText \in (IF passwordType = "string" THEN Texts ELSE {<<>>})
  /\ analysis = NoAnalysis

SpecAnalyzeAny == InitAnalyzeAny /\ [][NextAnalyze]_vars

----------------------------------------------------------------------------
(* The estimator applied to a whole number of bits *)

InitEstimate ==
  /\ GeneratorIdle
  /\ passwordType = "string"
  /\ analyzeText = <<>>
  /\ analysis = NoAnalysis
  /\ entropyArg \in 0..MaxBits
  /\ crackingTime = NoEstimate
  /\ UiIdle

\* const time = estimateCrackingTime(entropy)
Estimate ==
  /\ crackingTime = NoEstimate
  /\ crackingTime' = estimateCrackingTime(entropyArg)
  /\ UNCHANGED <<genVars, anaVars, entropyArg, uiVars, histVars, rndVars, shVars>>

NextEstimate == Estimate

SpecEstimate == InitEstimate /\ [][NextEstimate]_vars

----------------------------------------------------------------------------
(* The page: mounting, tab navigation, the authentication modal *)

\* the first render, in a browser whose localStorage is empty or holds the
\* account of an earlier sign-up
InitPage ==
  /\ GeneratorIdle
  /\ passwordType = "string"
  /\ analyzeText = <<>>
  /\ analysis = NoAnalysis
  /\ EstimatorIdle
  /\ InitialState
  /\ \/ storedUser = Null /\ storedPass = Null
     \/ \E a \in Accounts : storedUser = Some(a.user) /\ storedPass = Some(a.pass)
  /\ sessionEnded = FALSE
  /\ HistoryIdle
  /\ RandomIntIdle

notUi == <<genVars, anaVars, estVars, rndVars, shVars>>

\* useEffect(() => { ...; if (user) { setUser(...); setIsAuthenticated(true) } }, [])
Mount ==
  /\ ~ isMounted
  /\ isMounted' = TRUE
  /\ IF storedUser # Null
     THEN user' = storedUser /\ isAuthenticated' = TRUE
     ELSE UNCHANGED <<user, isAuthenticated>>
  /\ history' = IF storedHistory # Null THEN storedHistory[1] ELSE history
  /\ storedHistory' = Some(history')
  /\ UNCHANGED <<activeTab, showAuthModal, authMode, authEmail, authPassword,
                 authName, storedUser, storedPass, sessionEnded,
                 notUi, autoGenerate, generated>>

\* tab.locked of the tab list: only the bank tab, and only when logged out
locked(tab) == tab = "bank" /\ ~ isAuthenticated

\* onClick of a tab button
ClickTab(tab) ==
  /\ isMounted
  /\ IF locked(tab)
     THEN showAuthModal' = TRUE /\ UNCHANGED activeTab
     ELSE activeTab' = tab /\ UNCHANGED showAuthModal
  /\ UNCHANGED <<isMounted, isAuthenticated, user, authMode, authEmail,
                 authPassword, authName, storedUser, storedPass, sessionEnded,
                 notUi, histVars>>

\* the Login button of the header, shown unless isAuthenticated && user
ClickLogin ==
  /\ isMounted
  /\ ~ (isAuthenticated /\ user # Null)
  /\ showAuthModal' = TRUE
  /\ UNCHANGED <<isMounted, activeTab, isAuthenticated, user, authMode, authEmail,
                 authPassword, authName, storedUser, storedPass, sessionEnded,
                 notUi, histVars>>

\* the button 'Login to Access Bank' of the locked bank panel
ClickLoginToAccessBank ==
  /\ isMounted
  /\ activeTab = "bank"
  /\ ~ isAuthenticated
  /\ showAuthModal' = TRUE
  /\ UNCHANGED <<isMounted, activeTab, isAuthenticated, user, authMode, authEmail,
                 authPassword, authName, storedUser, storedPass, sessionEnded,
                 notUi, histVars>>

\* the Close button of the modal
CloseAuthModal ==
  /\ showAuthModal
  /\ showAuthModal' = FALSE
  /\ UNCHANGED <<isMounted, activeTab, isAuthenticated, user, authMode, authEmail,
                 authPassword, authName, storedUser, storedPass, sessionEnded,
                 notUi, histVars>>

\* setAuthMode(authMode === 'login' ? 'signup' : 'login')
ToggleAuthMode ==
  /\ showAuthModal
  /\ authMode' = IF authMode = "login" THEN "signup" ELSE "login"
  /\ UNCHANGED <<isMounted, activeTab, isAuthenticated, user, showAuthModal,
                 authEmail, authPassword, authName, storedUser, storedPass, sessionEnded,
                 notUi, histVars>>

\* onChange of the three inputs; the name input exists in signup mode only
TypeEmail(v) ==
  /\ showAuthModal
  /\ authEmail' = v
  /\ UNCHANGED <<isMounted, activeTab, isAuthenticated, user, showAuthModal,
                 authMode, authPassword, authName, storedUser, storedPass, sessionEnded,
                 notUi, histVars>>

TypePassword(v) ==
  /\ showAuthModal
  /\ authPassword' = v
  /\ UNCHANGED <<isMounted, activeTab, isAuthenticated, user, showAuthModal,
                 authMode, authEmail, authName, storedUser, storedPass, sessionEnded,
                 notUi, histVars>>

TypeName(v) ==
  /\ showAuthModal
  /\ authMode = "signup"
  /\ authName' = v
  /\ UNCHANGED <<isMounted, activeTab, isAuthenticated, user, showAuthModal,
                 authMode, authEmail, authPassword, storedUser, storedPass, sessionEnded,
                 notUi, histVars>>

\* the disabled attribute of the submit button
submitDisabled ==
  \/ trim(authEmail) = <<>>
  \/ trim(authPassword) = <<>>
  \/ (authMode = "signup" /\ trim(authName) = <<>>)

\* the test of the login branch: storedUser && storedPass === authPassword
credentialsAccepted == storedUser # Null /\ storedPass = Some(authPassword)

\* the login test with the e-mail address compared as well
credentialsMatch ==
  /\ storedUser # Null
  /\ storedUser[1].email = authEmail
  /\ storedPass = Some(authPassword)

\* handleAuth, from the submit button of the modal
handleAuth ==
  /\ showAuthModal
  /\ ~ submitDisabled
  /\ IF authMode = "login"
     THEN IF credentialsAccepted
          THEN /\ user' = storedUser
               /\ isAuthenticated' = TRUE
               /\ showAuthModal' = FALSE
               /\ sessionEnded' = FALSE
               /\ UNCHANGED <<storedUser, storedPass>>
          ELSE UNCHANGED <<user, isAuthenticated, showAuthModal, storedUser,
                           storedPass, sessionEnded>>
     ELSE /\ storedUser' = Some([email |-> authEmail, name |-> authName])
          /\ storedPass' = Some(authPassword)
          /\ user' = Some([email |-> authEmail, name |-> authName])
          /\ isAuthenticated' = TRUE
          /\ showAuthModal' = FALSE
          /\ sessionEnded' = FALSE
  /\ authEmail' = <<>>
  /\ authPassword' = <<>>
  /\ authName' = <<>>
  /\ UNCHANGED <<isMounted, activeTab, authMode, notUi, histVars>>

\* handleLogout, from the Logout button shown when isAuthenticated && user
handleLogout ==
  /\ isAuthenticated
  /\ user # Null
  /\ isAuthenticated' = FALSE
  /\ user' = Null
  /\ sessionEnded' = TRUE
  /\ UNCHANGED <<isMounted, activeTab, showAuthModal, authMode, authEmail,
                 authPassword, authName, storedUser, storedPass, notUi, histVars>>

\* the bank tab shows its panel, whatever the panel holds
bankTabShown == activeTab = "bank"

\* the branch of the bank panel that maps the entries of the bank:
\* activeTab === 'bank' && (!isAuthenticated ? <locked panel> : <list>)
bankListRendered == activeTab = "bank" /\ isAuthenticated

\* the page is loaded again: the component is mounted anew with the useState
\* initial values, localStorage is kept
Reload ==
  /\ isMounted
  /\ isMounted' = FALSE
  /\ activeTab' = "generator"
  /\ isAuthenticated' = FALSE
  /\ user' = Null
  /\ showAuthModal' = FALSE
  /\ authMode' = "login"
  /\ authEmail' = <<>>
  /\ authPassword' = <<>>
  /\ authName' = <<>>
  /\ history' = <<>>
  /\ autoGenerate' = FALSE
  /\ UNCHANGED <<storedUser, storedPass, sessionEnded, notUi, storedHistory,
                 generated>>

\* [newPassword, ...prev.slice(0, 49)] without the slice
pushHistoryUnsliced(prev, newPassword) == <<newPassword>> \o prev

\* [newPassword, ...prev.slice(0, 49)]
pushHistory(prev, newPassword) ==
  <<newPassword>> \o SubSeq(prev, 1, Min(49, Len(prev)))

\* generatePassword: the new password goes to the front of the history; the
\* persistence effect of history then writes the list to localStorage
generatePassword ==
  /\ generated < MaxGenerations
  /\ generated' = generated + 1
  /\ history' = pushHistory(history, generated')
  /\ storedHistory' = Some(history')
  /\ UNCHANGED <<autoGenerate, uiVars, notUi>>

\* onClick of the Generate button
ClickGenerate ==
  /\ isMounted
  /\ generatePassword

\* the auto-generate checkbox of the settings tab
ToggleAutoGenerate ==
  /\ isMounted
  /\ autoGenerate' = ~ autoGenerate
  /\ UNCHANGED <<history, storedHistory, generated, uiVars, notUi>>

\* the callback of setInterval, installed while autoGenerate is set
AutoGenerateTick ==
  /\ isMounted
  /\ autoGenerate
  /\ generatePassword

NextPage ==
  \/ Mount
  \/ \E tab \in TabTypes : ClickTab(tab)
  \/ ClickLogin
  \/ ClickLoginToAccessBank
  \/ CloseAuthModal
  \/ ToggleAuthMode
  \/ \E v \in Emails : TypeEmail(v)
  \/ \E v \in Passwords : TypePassword(v)
  \/ \E v \in Names : TypeName(v)
  \/ handleAuth
  \/ handleLogout
  \/ Reload

SpecPage == InitPage /\ [][NextPage]_vars

----------------------------------------------------------------------------
(* secureRandomInt on its own *)

\* the arguments: non-positive ones, small ones, and the sizes of the
\* alphabets of the generator
RandomIntArgs == (-1..MaxArg) \cup {26, 36, 52, 62, 88}

\* the 32-bit values drawn: around 0, 2^16 and 2^32 - 1
DrawnValues ==
  {Uint32(h, l) : h \in {0, 1, 65535},
                  l \in (0..MaxLow) \cup ((65535 - MaxLow)..65535)}

InitRandomInt ==
  /\ GeneratorIdle
  /\ passwordType = "string"
  /\ analyzeText = <<>>
  /\ analysis = NoAnalysis
  /\ EstimatorIdle
  /\ InitialState
  /\ storedUser = Null
  /\ storedPass = Null
  /\ sessionEnded = FALSE
  /\ HistoryIdle
  /\ \E n \in RandomIntArgs :
       rnd = [maxExclusive |-> n, buf |-> Uint32(0, 0), draws |-> 0,
              returned |-> NotReturned]
  /\ shuffle = [input |-> <<>>, draws |-> <<>>]

notRnd == <<genVars, anaVars, estVars, uiVars, histVars, shVars>>

\* if (maxExclusive <= 0) return 0
ReturnZero ==
  /\ rnd.returned = NotReturned
  /\ rnd.maxExclusive <= 0
  /\ rnd' = [rnd EXCEPT !.returned = 0]
  /\ UNCHANGED notRnd

\* one iteration of while (true): crypto.getRandomValues(buf);
\* if (val < limit) return val % maxExclusive
Draw(val) ==
  /\ rnd.returned = NotReturned
  /\ rnd.maxExclusive > 0
  /\ rnd.draws < MaxRndDraws
  /\ rnd' = [rnd EXCEPT
               !.buf = val,
               !.draws = @ + 1,
               !.returned = IF BelowLimit(val, rnd.maxExclusive)
                            THEN ValMod(val, rnd.maxExclusive)
                            ELSE NotReturned]
  /\ UNCHANGED notRnd

NextRandomInt ==
  \/ ReturnZero
  \/ \E val \in DrawnValues : Draw(val)

SpecRandomInt == InitRandomInt /\ [][NextRandomInt]_vars

----------------------------------------------------------------------------
(* secureShuffle on its own *)

\* the arrays: 1, 2, ..., n (pairwise distinct elements) and the arrays of
\* ones and twos, for every length n up to MaxShuffleLen
ShuffleInputs ==
  UNION {{[k \in 1..n |-> k]} \cup [1..n -> {1, 2}] : n \in 0..MaxShuffleLen}

\* values of the random source that let secureRandomInt(i + 1) return every
\* index of 0..i
ShuffleValues == {Uint32(0, l) : l \in 0..(MaxShuffleLen - 1)}

\* for (let i = arr.length - 1; ...
InitShuffle ==
  /\ \E arr \in ShuffleInputs :
       /\ result = arr
       /\ i = Len(arr) - 1
       /\ shuffle = [input |-> arr, draws |-> <<>>]
  /\ config = WithLength(CHOOSE f \in Flags : \A k \in DOMAIN f : ~ f[k], 0)
  /\ pc = "shuffle"
  /\ s = 1
  /\ safety = 0
  /\ output = <<>>
  /\ passwordType = "string"
  /\ analyzeText = <<>>
  /\ analysis = NoAnalysis
  /\ EstimatorIdle
  /\ InitialState
  /\ storedUser = Null
  /\ storedPass = Null
  /\ sessionEnded = FALSE
  /\ HistoryIdle
  /\ rnd = [maxExclusive |-> 0, buf |-> Uint32(0, 0), draws |-> 0,
            returned |-> NotReturned]

notShuffle == <<config, s, safety, anaVars, estVars, uiVars, histVars, rndVars>>

\* the iteration with j drawn from the whole array: secureRandomInt(arr.length)
secureShuffleStepNaive(vals) ==
  /\ pc = "shuffle"
  /\ i > 0
  /\ \E j \in secureRandomInt(Len(result), vals) :
       /\ result' = Swap(result, i + 1, j + 1)
       /\ shuffle' = [shuffle EXCEPT !.draws = Append(@, j)]
  /\ i' = i - 1
  /\ UNCHANGED <<pc, output, notShuffle>>

\* const j = secureRandomInt(i + 1); [arr[i], arr[j]] = [arr[j], arr[i]]; i--
secureShuffleStep(vals) ==
  /\ pc = "shuffle"
  /\ i > 0
  /\ \E j \in secureRandomInt(i + 1, vals) :
       /\ result' = Swap(result, i + 1, j + 1)
       /\ shuffle' = [shuffle EXCEPT !.draws = Append(@, j)]
  /\ i' = i - 1
  /\ UNCHANGED <<pc, output, notShuffle>>

\* return arr
secureShuffleReturn ==
  /\ pc = "shuffle"
  /\ ~ (i > 0)
  /\ output' = result
  /\ pc' = "done"
  /\ UNCHANGED <<result, i, shuffle, notShuffle>>

NextShuffle ==
  \/ secureShuffleStep(ShuffleValues)
  \/ secureShuffleReturn

SpecShuffle == InitShuffle /\ [][NextShuffle]_vars

----------------------------------------------------------------------------
(* Calls of the three exported functions one after and between the other: *)
(* the generator is called again after it returned, and the analyser and  *)
(* the estimator are called at any point                                  *)

MaxCallLen == 2

\* numbers only, requireAllTypes or noConsecutiveRepeat or neither, lengths
\* 1..MaxCallLen
CallConfigs ==
  {WithLength(f, l) :
     f \in {g \in PinFlags :
              /\ ~ g.avoidAmbiguous
              /\ ~ g.noSequential
              /\ ~ (g.requireAllTypes /\ g.noConsecutiveRepeat)},
     l \in 1..MaxCallLen}

\* the passwords analysed: "a" and "pass123"
CallTexts == {<<97>>, <<112, 97, 115, 115, 49, 50, 51>>}

\* the entropies estimated
CallBits == {0, 64}

\* values of the random source considered by SpecCalls: two values, which
\* pick '0' and '1'
CallValues == {Uint32(0, l) : l \in 0..1}

InitCalls == \E cfg \in CallConfigs : Call(cfg)

\* generateSecurePassword(cfg) once more: sets, result and the loop variables
\* are new; safety is declared right before the fill loop (SeedDone)
NextCall(cfg) ==
  /\ pc = "done"
  /\ config' = cfg
  /\ pc' = "seed"
  /\ s' = 1
  /\ result' = <<>>
  /\ i' = 0
  /\ UNCHANGED <<safety, output>>
  /\ UNCHANGED <<anaVars, estVars, uiVars, histVars, rndVars, shVars>>

\* analyzePasswordStrength(text), whatever was analysed before
AnalyzeCall(text) ==
  /\ analyzeText' = text
  /\ analysis' = analyzePasswordStrength(text)
  /\ UNCHANGED <<genVars, passwordType, estVars, uiVars, histVars, rndVars, shVars>>

\* estimateCrackingTime(bits), whatever was estimated before
EstimateCall(bits) ==
  /\ entropyArg' = bits
  /\ crackingTime' = estimateCrackingTime(bits)
  /\ UNCHANGED <<genVars, anaVars, uiVars, histVars, rndVars, shVars>>

NextCalls ==
  \/ SeedStep(CallValues)
  \/ SeedDone
  \/ FillStep(CallValues, MaxRejects)
  \/ FillDone
  \/ ShuffleStep(CallValues)
  \/ Return
  \/ \E cfg \in CallConfigs : NextCall(cfg)
  \/ \E text \in CallTexts : AnalyzeCall(text)
  \/ \E bits \in CallBits : EstimateCall(bits)

SpecCalls == InitCalls /\ [][NextCalls]_vars

----------------------------------------------------------------------------
(* calculateEntropy in the arithmetic of the language.  A number is an     *)
(* IEEE 754 double: every operation returns the exact result rounded to   *)
(* 53 significant bits, ties to even.  The doubles that occur here        *)
(* (probabilities, logarithms, their products and sums) are at least      *)
(* 2^-7, hence whole multiples of 2^-60: a double x is held as the        *)
(* natural number x * 2^60, and a natural number as the sequence of its   *)
(* digits in base 2^15, most significant first, zero the empty sequence.  *)

LimbBits == 15
LimbBase == 2 ^ LimbBits

Front(x) == SubSeq(x, 1, Len(x) - 1)

\* x * m + carry for m and carry below LimbBase
RECURSIVE MulSmall(_, _, _)
MulSmall(x, m, carry) ==
  IF x = <<>>
  THEN IF carry = 0 THEN <<>> ELSE <<carry>>
  ELSE LET v == x[Len(x)] * m + carry
       IN  Append(MulSmall(Front(x), m, v \div LimbBase), v % LimbBase)

\* long division of x by d < LimbBase: the quotient digits and the remainder
RECURSIVE DivSmall(_, _)
DivSmall(x, d) ==
  IF x = <<>> THEN [q |-> <<>>, r |-> 0]
  ELSE LET p == DivSmall(Front(x), d)
           v == p.r * LimbBase + x[Len(x)]
       IN  [q |-> Append(p.q, v \div d), r |-> v % d]

\* x + y + carry
RECURSIVE Plus(_, _, _)
Plus(x, y, carry) ==
  IF x = <<>> /\ y = <<>>
  THEN IF carry = 0 THEN <<>> ELSE <<carry>>
  ELSE LET a == IF x = <<>> THEN 0 ELSE x[Len(x)]
           b == IF y = <<>> THEN 0 ELSE y[Len(y)]
           v == a + b + carry
       IN  Append(Plus(IF x = <<>> THEN <<>> ELSE Front(x),
                       IF y = <<>> THEN <<>> ELSE Front(y),
                       v \div LimbBase),
                  v % LimbBase)

\* x * y
RECURSIVE Times(_, _)
Times(x, y) ==
  IF y = <<>> \/ x = <<>> THEN <<>>
  ELSE Plus(StripZeros(Append(Times(x, Front(y)), 0)),
            MulSmall(x, y[Len(y)], 0), 0)

\* x * 2^k
ShiftLeft(x, k) ==
  IF x = <<>> THEN <<>>
  ELSE MulSmall(x, 2 ^ (k % LimbBits), 0) \o [j \in 1..(k \div LimbBits) |-> 0]

\* floor(x / 2^k)
ShiftRight(x, k) ==
  IF Len(x) <= k \div LimbBits THEN <<>>
  ELSE StripZeros(DivSmall(SubSeq(x, 1, Len(x) - (k \div LimbBits)),
                           2 ^ (k % LimbBits)).q)

\* the number of significant bits of x
BitLength(x) ==
  IF x = <<>> THEN 0
  ELSE LimbBits * (Len(x) - 1)
         + (CHOOSE b \in 1..LimbBits : 2 ^ (b - 1) <= x[1] /\ x[1] < 2 ^ b)

IsOdd(x) == x # <<>> /\ x[Len(x)] % 2 = 1

\* x rounded to 53 significant bits, ties to even; sticky tells that the
\* exact value lies above x by less than one unit
Round53(x, sticky) ==
  LET k == BitLength(x) - 53
  IN  IF k <= 0 THEN x
      ELSE LET q2 == ShiftRight(x, k - 1)
               q == ShiftRight(q2, 1)
               inexact == sticky \/ ShiftLeft(q2, k - 1) # x
               up == IsOdd(q2) /\ (inexact \/ IsOdd(q))
           IN  ShiftLeft(IF up THEN Plus(q, <<>>, 1) ELSE q, k)

DoubleScale == 60

\* the whole number n, 0 < n < LimbBase, as a double
DoubleOf(n) == ShiftLeft(<<n>>, DoubleScale)

\* frequency / length
Quotient(frequency, length) ==
  LET qr == DivSmall(ShiftLeft(<<frequency>>, 2 * DoubleScale), length)
  IN  ShiftRight(Round53(StripZeros(qr.q), qr.r # 0), DoubleScale)

\* x * y
Product(x, y) == ShiftRight(Round53(Times(x, y), FALSE), DoubleScale)

\* x + y
Sum(x, y) == Round53(Plus(x, y, 0), FALSE)

\* -Math.log2(frequency / 24) for the frequencies 1, 4, 6 and 9:
\* 4.584962500721156, 2.584962500721156, 2 and 1.415037499278844
AbsLog2 ==
  [frequency \in {1, 4, 6, 9} |->
     CASE frequency = 1 -> <<4, 19168, 1678, 16250, 26624>>
       [] frequency = 4 -> <<2, 19168, 1678, 16250, 26624>>
       [] frequency = 6 -> <<2, 0, 0, 0, 0>>
       [] frequency = 9 -> <<1, 13599, 31089, 16517, 6144>>]

\* the keys of frequencyMap in the order of their insertion: the characters
\* of the password in the order of their first occurrence
RECURSIVE Keys(_)
Keys(password) ==
  IF password = <<>> THEN <<>>
  ELSE LET front == SubSeq(password, 1, Len(password) - 1)
           last == password[Len(password)]
       IN  IF last \in Chars(front) THEN Keys(front) ELSE Append(Keys(front), last)

\* for (const frequency of frequencyMap.values())
\*   entropy -= probability * Math.log2(probability)
RECURSIVE EntropyLoop(_, _)
EntropyLoop(password, keys) ==
  IF keys = <<>> THEN <<>>
  ELSE LET frequency == Frequency(password, keys[Len(keys)])
           probability == Quotient(frequency, Len(password))
       IN  Sum(EntropyLoop(password, SubSeq(keys, 1, Len(keys) - 1)),
               Product(probability, AbsLog2[frequency]))

\* return entropy * password.length
calculateEntropyDouble(password) ==
  IF Len(password) = 0 THEN <<>>
  ELSE Round53(MulSmall(EntropyLoop(password, Keys(password)), Len(password), 0),
               FALSE)

\* the value of a natural number below 2^30
ValueOf(x) ==
  IF x = <<>> THEN 0
  ELSE IF Len(x) = 1 THEN x[1]
  ELSE x[1] * LimbBase + x[2]

\* Math.round(entropy * 10), the bits in tenths
RoundTimesTen(entropy) ==
  ValueOf(ShiftRight(Plus(Round53(MulSmall(entropy, 10, 0), FALSE),
                          ShiftLeft(<<1>>, DoubleScale - 1), 0),
                     DoubleScale))

scoreOfDouble(password) ==
  LET entropy == calculateEntropyDouble(password)
      length == Len(password)
  IN  Bit(length >= 8) + Bit(length >= 12) + Bit(length >= 16) + Bit(length >= 20)
      + Bit(\E c \in Chars(password) : IsLower(c))
      + Bit(\E c \in Chars(password) : IsUpper(c))
      + Bit(\E c \in Chars(password) : IsDigit(c))
      + Bit(\E c \in Chars(password) : ~ IsLower(c) /\ ~ IsUpper(c) /\ ~ IsDigit(c))
      + Bit(AtLeast(entropy, DoubleOf(50))) + Bit(AtLeast(entropy, DoubleOf(80)))

analyzePasswordStrengthDouble(password) ==
  [bits  |-> RoundTimesTen(calculateEntropyDouble(password)),
   score |-> scoreOfDouble(password),
   label |-> labelOf(scoreOfDouble(password)),
   color |-> colorOf(scoreOfDouble(password))]

\* runs of one character each: nine 'a', six 'b', four 'c', four 'd', one 'e'
Runs ==
  << [k \in 1..9 |-> 97], [k \in 1..6 |-> 98], [k \in 1..4 |-> 99],
     [k \in 1..4 |-> 100], [k \in 1..1 |-> 101] >>

\* the 24-character passwords made of the five runs in any order
OrderTexts ==
  {Runs[o[1]] \o Runs[o[2]] \o Runs[o[3]] \o Runs[o[4]] \o Runs[o[5]] :
     o \in Permutations(1..5)}

InitOrder ==
  /\ GeneratorIdle
  /\ EstimatorIdle
  /\ UiIdle
  /\ passwordType = "string"
  /\ analyzeText \in OrderTexts
  /\ analysis = NoAnalysis

\* const analysis = analyzePasswordStrength(analyzeText), in doubles
AnalyzeDouble ==
  /\ analysis = NoAnalysis
  /\ analysis' = analyzePasswordStrengthDouble(analyzeText)
  /\ UNCHANGED <<genVars, passwordType, analyzeText, estVars, uiVars, histVars, rndVars, shVars>>

NextOrder == AnalyzeDouble

SpecOrder == InitOrder /\ [][NextOrder]_vars

\* the first render in a browser with an empty localStorage
InitHistory ==
  /\ GeneratorIdle
  /\ passwordType = "string"
  /\ analyzeText = <<>>
  /\ analysis = NoAnalysis
  /\ EstimatorIdle
  /\ UiIdle

NextHistory ==
  \/ Mount
  \/ ClickGenerate
  \/ ToggleAutoGenerate
  \/ AutoGenerateTick
  \/ Reload

SpecHistory == InitHistory /\ [][NextHistory]_vars

----------------------------------------------------------------------------
(* Vocabulary of the properties *)

ClassKeys == {"uppercase", "lowercase", "numbers", "symbols"}
EnabledKeys(cfg) == {k \in ClassKeys : cfg[k]}

\* the effective alphabet of a class: its base characters, minus the
\* ambiguous set for uppercase, lowercase and numbers under avoidAmbiguous
EffectiveClass(cfg, k) ==
  IF cfg.avoidAmbiguous /\ k # "symbols"
  THEN Chars(CHARACTER_SETS[k]) \ AMBIGUOUS_CHARS
  ELSE Chars(CHARACTER_SETS[k])

Returned == pc = "done"

----------------------------------------------------------------------------
(* C1: for a valid configuration (8 <= length <= 64, at least one class,  *)
(* any rules) the returned string has exactly `length` characters,        *)
(* whatever the random draws are.                                         *)
C1_ExactLength ==
  (Returned /\ ValidConfig(config)) => Len(output) = config.length

(* C2: with noConsecutiveRepeat, length >= 2 and a combined alphabet of   *)
(* at least 2 characters, the returned string has no two equal adjacent   *)
(* characters.                                                            *)
C2_NoAdjacentEqual ==
  (Returned /\ config.noConsecutiveRepeat /\ config.length >= 2
     /\ Len(combined(config)) >= 2)
  => \A k \in 1..(Len(output) - 1) : output[k] # output[k + 1]

(* C3: with noSequential the returned string has no three consecutive     *)
(* positions holding x, x+1, x+2 or x, x-1, x-2.                          *)
C3_NoSequentialRun ==
  (Returned /\ config.noSequential)
  => \A k \in 1..(Len(output) - 2) :
        /\ ~ (output[k + 1] = output[k] + 1 /\ output[k + 2] = output[k] + 2)
        /\ ~ (output[k + 1] = output[k] - 1 /\ output[k + 2] = output[k] - 2)

(* C4: with at least one class enabled, every character of the returned   *)
(* string belongs to the effective alphabet of an enabled class (so with  *)
(* one class enabled, to that class).                                     *)
C4_OutputFromEnabledClasses ==
  (Returned /\ NumEnabled(config) >= 1)
  => \A c \in Chars(output) :
        \E k \in EnabledKeys(config) : c \in EffectiveClass(config, k)

C4_Witness ==
  /\ Returned
  /\ EnabledKeys(config) = {"numbers"}
  /\ config.avoidAmbiguous
  /\ Len(output) = MaxLen
  /\ Cardinality(Chars(output)) >= 2

(* C5: with avoidAmbiguous, whichever classes are enabled, the returned   *)
(* string contains none of I, l, 1, O, 0, o.                              *)
C5_NoAmbiguous ==
  (Returned /\ config.avoidAmbiguous)
  => Chars(output) \cap AMBIGUOUS_CHARS = {}

(* C6: with requireAllTypes, at least one class enabled and length >= the *)
(* number of enabled classes, the returned string contains a character of *)
(* the effective alphabet of each enabled class.                          *)
C6_AllTypesPresent ==
  (Returned /\ config.requireAllTypes /\ NumEnabled(config) >= 1
     /\ config.length >= NumEnabled(config))
  => \A k \in EnabledKeys(config) :
        Chars(output) \cap EffectiveClass(config, k) # {}

C6_Witness ==
  /\ Returned
  /\ config.requireAllTypes
  /\ NumEnabled(config) = MaxLen
  /\ config.length = MaxLen
  /\ Len(output) = MaxLen

(* C7: with no class enabled the generator works on the lowercase         *)
(* alphabet, never on an empty one: every character it draws and returns  *)
(* is one of a-z (none is undefined), whatever requireAllTypes is.        *)
C7_FallbackLowercase ==
  (pc \in {"seed", "fill", "shuffle", "done"} /\ NumEnabled(config) = 0)
  => /\ Len(combined(config)) > 0
     /\ \A c \in Chars(result) \cup Chars(output) : IsLower(c)

C7_Witness ==
  /\ Returned
  /\ NumEnabled(config) = 0
  /\ config.requireAllTypes
  /\ Len(output) = MaxLen

(* C8: every call terminates: each step of a call strictly decreases a    *)
(* natural-number measure, and the fill loop accepts at most              *)
(* max(0, length) characters and rejects at most SAFETY_LIMIT + 1         *)
(* candidates, leaving the loop at the rejection that exceeds the cap.    *)
NumSets(cfg) == Len(buildEnabledSets(cfg))
Seeded == IF requireAll(config) THEN s - 1 ELSE 0
Accepted == Len(result) - Seeded

ShuffleMeasure == Max(i, 0) + 1
FillMeasure ==
  Max(0, targetLength(config) - Len(result)) + (SAFETY_LIMIT + 1 - safety) + 1
    + Max(targetLength(config), Len(result)) + 1
SeedMeasure ==
  (IF requireAll(config) THEN NumSets(config) - Seeded ELSE 0) + 1
    + targetLength(config) + (SAFETY_LIMIT + 1) + 1
    + Max(targetLength(config), NumSets(config)) + 1
Measure ==
  CASE pc = "seed" -> SeedMeasure
    [] pc = "fill" -> FillMeasure
    [] pc = "shuffle" -> ShuffleMeasure
    [] OTHER -> 0

FillBounded ==
  /\ Measure \in Nat
  /\ safety <= SAFETY_LIMIT + 1
  /\ (pc = "fill" => safety <= SAFETY_LIMIT)
  /\ Accepted >= 0
  /\ Accepted <= targetLength(config)

C8_Terminates == [][Measure' < Measure]_vars /\ []FillBounded

C8_Witness ==
  /\ Returned
  /\ safety = SAFETY_LIMIT + 1
  /\ Len(output) < config.length

(* C9: the returned string is never longer than max(0, length); with      *)
(* requireAllTypes and 0 <= length < number of enabled classes it has     *)
(* exactly `length` characters.                                           *)
C9_LengthBound ==
  Returned
  => /\ Len(output) <= Max(0, config.length)
     /\ (config.requireAllTypes /\ 0 <= config.length
           /\ config.length < NumEnabled(config))
        => Len(output) = config.length

C9_Witness ==
  /\ Returned
  /\ config.requireAllTypes
  /\ NumEnabled(config) = 4
  /\ config.length = 2
  /\ Len(result) = 4
  /\ Len(output) = 2

(* C10: the score is an integer in 0..10 and the label is determined by   *)
(* the score: Weak for 0..3, Fair for 4..5, Good for 6..7, Strong for     *)
(* 8..9, Excellent for 10.                                                *)
C10_ScoreAndLabel ==
  analysis # NoAnalysis
  => /\ analysis.score \in 0..10
     /\ (analysis.score \in 0..3 <=> analysis.label = "Weak")
     /\ (analysis.score \in 4..5 <=> analysis.label = "Fair")
     /\ (analysis.score \in 6..7 <=> analysis.label = "Good")
     /\ (analysis.score \in 8..9 <=> analysis.label = "Strong")
     /\ (analysis.score = 10 <=> analysis.label = "Excellent")

C10_Witness ==
  /\ analysis # NoAnalysis
  /\ analysis.score = 10
  /\ analysis.label = "Excellent"

(* C11: the score is the number of length thresholds among 8, 12, 16, 20  *)
(* that the length reaches, plus the number of character kinds (lowercase *)
(* letter, uppercase letter, digit, other) that occur, plus the number of *)
(* entropy thresholds among 50 and 80 bits that the entropy reaches.      *)
LengthThresholds == {8, 12, 16, 20}
EntropyThresholds == {50, 80}

KindOf(c) ==
  IF c \in 97..122 THEN "lowercase"
  ELSE IF c \in 65..90 THEN "uppercase"
  ELSE IF c \in 48..57 THEN "digit"
  ELSE "other"

KindsIn(text) == {KindOf(text[k]) : k \in 1..Len(text)}

Analysed == analysis # NoAnalysis /\ passwordType = "string"

C12_EmptyString ==
  (Analysed /\ analyzeText = <<>>)
  => /\ analysis # TypeError
     /\ analysis.bits = 0
     /\ analysis.score = 0
     /\ analysis.label = "Weak"

C12_Witness ==
  /\ Analysed
  /\ Len(analyzeText) = 0
  /\ analysis.label = "Weak"
  /\ analysis.color = "bg-red-500"

(* C13: for an argument that is not a string (null, undefined, a number)  *)
(* the analyser returns the zero-valued result (bits 0, score 0, label    *)
(* Weak) and raises no error.                                             *)
C13_NonStringZeroResult ==
  (analysis # NoAnalysis /\ passwordType # "string")
  => /\ analysis # TypeError
     /\ analysis.bits = 0
     /\ analysis.score = 0
     /\ analysis.label = "Weak"

(* C14: a password shorter than 8 characters that lacks at least one of   *)
(* the four character kinds gets a score of at most 3 and the label Weak; *)
(* "pass123" is such a password.                                          *)
AllKinds == {"lowercase", "uppercase", "digit", "other"}

ShortAndPartial(text) == Len(text) < 8 /\ KindsIn(text) # AllKinds

Pass123 == <<112, 97, 115, 115, 49, 50, 51>>

C14_ShortPartialIsWeak ==
  /\ ShortAndPartial(Pass123)
  /\ (Analysed /\ ShortAndPartial(analyzeText))
     => /\ analysis.score <= 3
        /\ analysis.label = "Weak"

C14_Witness ==
  /\ Analysed
  /\ analyzeText = Pass123
  /\ analysis.score = 2
  /\ analysis.label = "Weak"

(* C15: a password of at least 16 pairwise distinct characters with a     *)
(* lowercase letter, an uppercase letter, a digit and another character   *)
(* gets a score of at least 8 and the label Strong or Excellent;          *)
(* "Xk9$mP2&nQ5@wL8#" is such a password.                                 *)
LongDistinctAllKinds(text) ==
  /\ Len(text) >= 16
  /\ \A j, k \in 1..Len(text) : j # k => text[j] # text[k]
  /\ KindsIn(text) = AllKinds

Xk9mP2nQ5wL8 ==
  <<88, 107, 57, 36, 109, 80, 50, 38, 110, 81, 53, 64, 119, 76, 56, 35>>

ShannonBits(text) ==
  SumOver([k \in 1..Len(text) |->
             Log2Micro[Len(text)] - Log2Micro[Frequency(text, text[k])]],
          1..Len(text))

\* millionths of a bit rounded to tenths of a bit
RoundTenths(micro) == (micro + 50000) \div 100000

PasswordText == <<112, 97, 115, 115, 119, 111, 114, 100>>

BitsAreShannon ==
  /\ analysis.bits = RoundTenths(ShannonBits(analyzeText))
  /\ (Cardinality(Chars(analyzeText)) = 1 => analysis.bits = 0)
  /\ (Cardinality(Chars(analyzeText)) >= 2 => analysis.bits > 0)
  /\ (analyzeText = PasswordText
        => analysis.bits = 220 /\ analysis.bits > 0 /\ analysis.bits < 500)

UnitSeconds ==
  [centuries |-> <<3, 1, 5, 3, 6, 0, 0, 0, 0, 0>>,
   years     |-> <<3, 1, 5, 3, 6, 0, 0, 0>>,
   months    |-> <<2, 5, 9, 2, 0, 0, 0>>,
   days      |-> <<8, 6, 4, 0, 0>>,
   hours     |-> <<3, 6, 0, 0>>,
   minutes   |-> <<6, 0>>,
   seconds   |-> <<1>>]

Units == DOMAIN UnitSeconds

\* seconds >= unit, that is 2^bits >= 2 * unit * 10^10
UnitReached(bits, u) ==
  AtLeast(Pow2(bits),
          TimesSmall(UnitSeconds[u], 2, 0) \o <<0, 0, 0, 0, 0, 0, 0, 0, 0, 0>>)

Estimated == crackingTime # NoEstimate

C17_LargestWholeUnit ==
  Estimated
  => /\ crackingTime.label \in Units \cup {"instant"}
     /\ (crackingTime.label = "instant" <=> ~ UnitReached(entropyArg, "seconds"))
     /\ crackingTime.label \in Units
          => /\ UnitReached(entropyArg, crackingTime.label)
             /\ \A u \in Units :
                  UnitReached(entropyArg, u)
                    => AtLeast(UnitSeconds[crackingTime.label], UnitSeconds[u])
             /\ crackingTime.count # <<>>
             /\ crackingTime.count[1] # 0
     /\ (entropyArg = 0 => crackingTime.label = "instant")
     /\ (entropyArg = 128 => crackingTime.label = "centuries")

C17_Witness ==
  /\ Estimated
  /\ entropyArg = 128
  /\ crackingTime.label = "centuries"
  /\ Len(crackingTime.count) = 19

(* C19: the Password Bank requires authentication: the list of bank       *)
(* entries is rendered only in states where isAuthenticated is true, and  *)
(* a click on the Password Bank tab while unauthenticated opens the       *)
(* authentication modal and leaves the active tab unchanged.              *)
C19_BankRequiresAuthentication ==
  /\ [](bankListRendered => isAuthenticated)
  /\ [][(ClickTab("bank") /\ ~ isAuthenticated)
          => (showAuthModal' /\ activeTab' = activeTab)]_vars

\* logged out while the bank tab is active: the tab stays, the list is gone
\* and the modal has been opened from there
C19_Witness ==
  /\ activeTab = "bank"
  /\ ~ isAuthenticated
  /\ storedUser # Null
  /\ showAuthModal
  /\ ~ bankListRendered

(* C20: login is an e-mail and password check: handleAuth in login mode   *)
(* sets isAuthenticated only when both the entered e-mail address and the *)
(* entered password match the account stored at sign-up, and leaves the   *)
(* user unauthenticated otherwise.                                        *)
C20_LoginChecksEmailAndPassword ==
  [][(handleAuth /\ authMode = "login")
       => (isAuthenticated' <=> credentialsMatch)]_vars

(* C21: logout ends the session: once handleLogout has run,               *)
(* isAuthenticated stays false through every later event, a reload of the *)
(* page included, until a handleAuth login or sign-up succeeds.           *)
C21_LogoutEndsSession == sessionEnded => ~ isAuthenticated

(* C22: the generation history keeps up to 50 recent passwords: it has at *)
(* most 50 entries, its first entry is the most recently generated        *)
(* password, and the retained entries are ordered newest first.           *)
C22_HistoryBounded ==
  /\ Len(history) <= 50
  /\ (history # <<>> => history[1] = generated)
  /\ \A j, k \in 1..Len(history) : j < k => history[j] > history[k]

\* the 51st password has pushed the first one out
C22_Witness ==
  /\ Len(history) = 50
  /\ generated = 51
  /\ history[1] = 51
  /\ history[50] = 2

(* C23: when the rejection cap is reached while a slot is filled, the     *)
(* candidate is accepted for that slot and filling continues until the    *)
(* result has `length` characters.                                        *)
C23_CapAcceptsCandidate ==
  pc \in {"shuffle", "done"} => Len(result) >= targetLength(config)

(* C24: for an integer n >= 1, secureRandomInt(n) returns r with          *)
(* 0 <= r < n: it accepts a drawn 32-bit value v exactly when             *)
(* v < floor(2^32 / n) * n and returns v mod n, so that every r is        *)
(* produced by the floor(2^32 / n) accepted values k * n + r with         *)
(* 0 <= k < floor(2^32 / n); for n <= 0 it returns 0 without drawing.     *)

\* the drawn value, floor(2^32 / n) and floor(2^32 / n) * n in decimal digits
DrawnDigits == TimesSmall(TimesSmall(<<>>, 1, rnd.buf.hi), 65536, rnd.buf.lo)
Quota(n) == FloorDiv(Pow2(32), n)
Limit(n) == TimesSmall(Quota(n), n, 0)

C24_UniformBelowLimit ==
  LET n == rnd.maxExclusive
  IN  /\ (n <= 0 /\ rnd.returned # NotReturned)
         => (rnd.returned = 0 /\ rnd.draws = 0)
      /\ (n >= 1 /\ rnd.draws > 0)
         => /\ rnd.returned # NotReturned <=> ~ AtLeast(DrawnDigits, Limit(n))
            /\ rnd.returned # NotReturned
                 => /\ rnd.returned \in 0..(n - 1)
                    /\ rnd.returned = QuotRem(DrawnDigits, n).r
                    /\ ~ AtLeast(FloorDiv(DrawnDigits, n), Quota(n))

\* with n = 88 a first value was rejected and 2^32 - 65, below the limit
\* 2^32 - 48, is accepted
C24_Witness ==
  /\ rnd.maxExclusive = 88
  /\ rnd.draws = 2
  /\ rnd.buf = Uint32(65535, 65535 - 64)
  /\ rnd.returned = 71

(* C25: secureShuffle returns the array it was given holding a            *)
(* permutation of its input (same length, same multiset of elements); it  *)
(* swaps position i with a position j drawn from 0..i for i from          *)
(* length - 1 down to 1, so that the sequences of draws correspond        *)
(* one-to-one with the permutations of the positions.                     *)

SamePermuted(a, b) ==
  /\ Len(a) = Len(b)
  /\ \A x \in Chars(a) \cup Chars(b) : Frequency(a, x) = Frequency(b, x)

PositionOf(arr, x) == CHOOSE k \in 1..Len(arr) : arr[k] = x

\* the draws that lead from arr to final, for pairwise distinct elements:
\* the element that ends at position k was swapped there from its position
\* in the array of that moment, and is not moved afterwards
RECURSIVE DrawsLeadingTo(_, _, _)
DrawsLeadingTo(arr, final, k) ==
  IF k <= 1 THEN <<>>
  ELSE LET j == PositionOf(arr, final[k])
       IN  <<j - 1>> \o DrawsLeadingTo(Swap(arr, k, j), final, k - 1)

C25_ShufflePermutes ==
  LET n == Len(shuffle.input)
  IN  /\ SamePermuted(result, shuffle.input)
      /\ \A k \in 1..Len(shuffle.draws) : shuffle.draws[k] \in 0..(n - k)
      /\ pc = "done"
           => /\ output = result
              /\ Len(shuffle.draws) = Max(n - 1, 0)
              /\ Cardinality(Chars(shuffle.input)) = n
                   => shuffle.draws = DrawsLeadingTo(shuffle.input, result, n)

\* 1 2 3 4 shuffled into 2 3 4 1 by the draws 0, 0, 0
C25_Witness ==
  /\ pc = "done"
  /\ shuffle.input = <<1, 2, 3, 4>>
  /\ shuffle.draws = <<0, 0, 0>>
  /\ output = <<2, 3, 4, 1>>

(* C26: when requireAllTypes is set and at least one class is enabled,    *)
(* before any fill character is drawn the result holds exactly one        *)
(* character per enabled class, in the order uppercase, lowercase,        *)
(* numbers, symbols, each of that class's own effective alphabet; when    *)
(* requireAllTypes is not set, filling starts from an empty result.       *)

ClassOrder == <<"uppercase", "lowercase", "numbers", "symbols">>

\* the enabled classes in class order
EnabledInOrder(cfg) == SelectSeq(ClassOrder, LAMBDA k : cfg[k])

C26_SeededInClassOrder ==
  LET keys == EnabledInOrder(config)
  IN  pc \in {"seed", "fill"}
      => IF config.requireAllTypes /\ keys # <<>>
         THEN /\ pc = "seed" => Len(result) <= Len(keys)
              /\ pc = "fill" => Len(result) >= Len(keys)
              /\ \A k \in 1..Min(Len(result), Len(keys)) :
                   result[k] \in EffectiveClass(config, keys[k])
         ELSE pc = "seed" => result = <<>>

\* seeding is over and no fill character has been drawn: lowercase, numbers
\* and symbols have given one character each
C26_Witness ==
  /\ pc = "fill"
  /\ config.requireAllTypes
  /\ EnabledInOrder(config) = <<"lowercase", "numbers", "symbols">>
  /\ Len(result) = 3
  /\ IsLower(result[1])
  /\ IsDigit(result[2])

(* C27: the base character classes have 26 uppercase letters, 26          *)
(* lowercase letters, 10 digits and 25 symbols, and the symbols class is  *)
(* the same whether or not avoidAmbiguous is set.                         *)

BaseClassSize == [uppercase |-> 26, lowercase |-> 26, numbers |-> 10, symbols |-> 25]

\* the enabled sets of the call's configuration with avoidAmbiguous as given
SetsWith(avoid) == buildEnabledSets([config EXCEPT !.avoidAmbiguous = avoid])

C27_BaseClassSizes ==
  /\ \A k \in 1..Len(SetsWith(FALSE)) :
       LET e == SetsWith(FALSE)[k]
       IN  /\ Len(e.chars) = BaseClassSize[e.key]
           /\ Cardinality(Chars(e.chars)) = BaseClassSize[e.key]
  /\ \A k \in 1..Len(SetsWith(TRUE)) :
       SetsWith(TRUE)[k].key = "symbols"
         => SetsWith(TRUE)[k].chars = SetsWith(FALSE)[k].chars

(* C28: no call of generateSecurePassword, analyzePasswordStrength or     *)
(* estimateCrackingTime changes state another call reads: whatever calls  *)
(* came before and in between, the fill loop of a generate call starts    *)
(* with the rejection counter at 0 and an array of its own, a step of one *)
(* function leaves the variables of the other two alone, and an analysis  *)
(* or an estimate is the function of its own argument.                    *)

C28_CallsIndependent ==
  [][ /\ (pc = "seed" /\ pc' = "fill") => safety' = 0
      /\ (pc = "done" /\ pc' = "seed") => (result' = <<>> /\ s' = 1)
      /\ genVars' # genVars => UNCHANGED <<anaVars, estVars>>
      /\ anaVars' # anaVars
           => /\ UNCHANGED <<genVars, estVars>>
              /\ analysis' = analyzePasswordStrength(analyzeText')
      /\ estVars' # estVars
           => /\ UNCHANGED <<genVars, anaVars>>
              /\ crackingTime' = estimateCrackingTime(entropyArg')
    ]_vars

\* a generate call begins after one that rejected a candidate, with an
\* analysis and an estimate made in between
C28_Witness ==
  /\ pc = "seed"
  /\ safety > 0
  /\ output # <<>>
  /\ analysis # NoAnalysis
  /\ crackingTime # NoEstimate

(* C29: the result of analyzePasswordStrength depends only on the         *)
(* multiset of the characters: a password and any permutation of it,      *)
(* among them its characters in ascending order, get the same bits, score *)
(* and label.                                                             *)

\* the characters of str in ascending order
RECURSIVE Ascending(_)
Ascending(str) ==
  IF str = <<>> THEN <<>>
  ELSE LET least == CHOOSE c \in Chars(str) : \A d \in Chars(str) : c <= d
       IN  SelectSeq(str, LAMBDA c : c = least)
             \o Ascending(SelectSeq(str, LAMBDA c : c # least))

C29_PermutationInvariant ==
  analysis # NoAnalysis
    => LET sorted == analyzePasswordStrengthDouble(Ascending(analyzeText))
       IN  /\ analysis.bits = sorted.bits
           /\ analysis.score = sorted.score
           /\ analysis.label = sorted.label

(* C30: appending a character never lowers the strength: the score of     *)
(* s + c is at least the score of s, since the length, the kinds of       *)
(* characters present and the total entropy do not decrease; hence the    *)
(* label never moves to a weaker tier.                                    *)

\* the characters appended: those of the password and one of each kind
AppendedTo(str) == Chars(str) \cup {97, 90, 55, 33}

Tiers == <<"Weak", "Fair", "Good", "Strong", "Excellent">>

TierOf(label) == CHOOSE k \in 1..Len(Tiers) : Tiers[k] = label

====
